---------------------------- MODULE Spec2Model ----------------------------
(***************************************************************************)
(* Model of server.py, the password-protected image gallery.               *)
(*                                                                         *)
(* Python strings are modelled as sequences of one-character strings, so   *)
(* that lower(), split(), int(), startswith(), strptime() and strftime()   *)
(* are computed character by character as the interpreter computes them.   *)
(* The file system is a function from absolute paths (sequences of         *)
(* component names) to nodes; a directory node carries its entries in      *)
(* os.listdir() order, which is arbitrary.                                 *)
(***************************************************************************)
EXTENDS Integers, Sequences, FiniteSets, TLC

VARIABLES fs, session, lastEvent, request, response

vars == <<fs, session, lastEvent, request, response>>

(***************************************************************************)
(* Bounds of the model.                                                    *)
(***************************************************************************)
MaxHourNum == 14
MaxImages == 26
MaxPage == 4
MaxEntries == 3
MaxRootEntries == 3
MaxDepth == 3

(***************************************************************************)
(* Characters and strings.                                                 *)
(***************************************************************************)
Digits == <<"0", "1", "2", "3", "4", "5", "6", "7", "8", "9">>

UpperAlpha == <<"A", "B", "C", "D", "E", "F", "G", "H", "I", "J", "K", "L", "M",
                "N", "O", "P", "Q", "R", "S", "T", "U", "V", "W", "X", "Y", "Z">>

LowerAlpha == <<"a", "b", "c", "d", "e", "f", "g", "h", "i", "j", "k", "l", "m",
                "n", "o", "p", "q", "r", "s", "t", "u", "v", "w", "x", "y", "z">>

IndexOf(c, seq) == CHOOSE i \in 1..Len(seq) : seq[i] = c

IsIn(c, seq) == \E i \in 1..Len(seq) : seq[i] = c

\* The code point of a character (ASCII), which orders Python strings.
Ord(c) ==
  IF IsIn(c, Digits) THEN 47 + IndexOf(c, Digits)
  ELSE IF IsIn(c, UpperAlpha) THEN 64 + IndexOf(c, UpperAlpha)
  ELSE IF IsIn(c, LowerAlpha) THEN 96 + IndexOf(c, LowerAlpha)
  ELSE CASE c = " " -> 32
         [] c = "+" -> 43
         [] c = "-" -> 45
         [] c = "." -> 46
         [] c = "/" -> 47
         [] c = "_" -> 95

\* str < str: lexicographic on code points, a proper prefix first.
RECURSIVE StrLess(_, _)
StrLess(a, b) ==
  IF b = <<>> THEN FALSE
  ELSE IF a = <<>> THEN TRUE
  ELSE IF Head(a) = Head(b) THEN StrLess(Tail(a), Tail(b))
  ELSE Ord(Head(a)) < Ord(Head(b))

\* str.lower()
Lower(s) ==
  [i \in 1..Len(s) |->
     IF IsIn(s[i], UpperAlpha) THEN LowerAlpha[IndexOf(s[i], UpperAlpha)] ELSE s[i]]

\* str.split(sep) for a one-character separator: always at least one token.
RECURSIVE SplitAcc(_, _, _)
SplitAcc(s, sep, cur) ==
  IF s = <<>> THEN <<cur>>
  ELSE IF Head(s) = sep THEN <<cur>> \o SplitAcc(Tail(s), sep, <<>>)
  ELSE SplitAcc(Tail(s), sep, Append(cur, Head(s)))

Split(s, sep) == SplitAcc(s, sep, <<>>)

\* sep.join(parts)
RECURSIVE Join(_, _)
Join(parts, sep) ==
  IF parts = <<>> THEN <<>>
  ELSE IF Len(parts) = 1 THEN parts[1]
  ELSE parts[1] \o <<sep>> \o Join(Tail(parts), sep)

\* str.startswith(prefix)
StartsWith(s, prefix) ==
  /\ Len(prefix) <= Len(s)
  /\ SubSeq(s, 1, Len(prefix)) = prefix

\* str.strip() on blanks
RECURSIVE LStrip(_)
LStrip(s) == IF s # <<>> /\ Head(s) = " " THEN LStrip(Tail(s)) ELSE s

RECURSIVE RStrip(_)
RStrip(s) ==
  IF s # <<>> /\ s[Len(s)] = " " THEN RStrip(SubSeq(s, 1, Len(s) - 1)) ELSE s

Strip(s) == LStrip(RStrip(s))

AllDigits(s) == s # <<>> /\ \A i \in 1..Len(s) : IsIn(s[i], Digits)

RECURSIVE DigitsValue(_)
DigitsValue(s) ==
  IF s = <<>> THEN 0
  ELSE 10 * DigitsValue(SubSeq(s, 1, Len(s) - 1)) + (IndexOf(s[Len(s)], Digits) - 1)

\* int(s) succeeds: blanks stripped, an optional sign, then decimal digits.
IntOk(s) ==
  LET t == Strip(s)
  IN  /\ t # <<>>
      /\ IF Head(t) \in {"+", "-"} THEN AllDigits(Tail(t)) ELSE AllDigits(t)

\* int(s), where IntOk(s)
IntValue(s) ==
  LET t == Strip(s)
  IN  IF Head(t) = "-" THEN 0 - DigitsValue(Tail(t))
      ELSE IF Head(t) = "+" THEN DigitsValue(Tail(t))
      ELSE DigitsValue(t)

\* The decimal numeral of a natural number (str(n)).
RECURSIVE Dec(_)
Dec(n) == IF n < 10 THEN <<Digits[n + 1]>> ELSE Dec(n \div 10) \o <<Digits[(n % 10) + 1]>>

\* '%02d' % n
Pad2(n) == IF n < 10 THEN <<"0">> \o Dec(n) ELSE Dec(n)

(***************************************************************************)
(* get_hour_data.sort_key                                                  *)
(***************************************************************************)
SENTINEL == 99

sort_key_pm_always(hour_str) ==
  LET parts == Split(Lower(hour_str), "_")
  IN  IF ~IntOk(parts[1]) THEN SENTINEL
      ELSE LET hour_num == IntValue(parts[1])
               ampm == IF Len(parts) > 1 THEN parts[2] ELSE <<"a", "m">>
           IN  IF ampm = <<"p", "m">> THEN hour_num + 12
               ELSE IF ampm = <<"a", "m">> /\ hour_num = 12 THEN 0
               ELSE hour_num

sort_key(hour_str) ==
  LET parts == Split(Lower(hour_str), "_")
  IN  IF ~IntOk(parts[1]) THEN SENTINEL
      ELSE LET hour_num == IntValue(parts[1])
               ampm == IF Len(parts) > 1 THEN parts[2] ELSE <<"a", "m">>
               h1 == IF ampm = <<"p", "m">> /\ hour_num # 12 THEN hour_num + 12
                     ELSE hour_num
               h2 == IF ampm = <<"a", "m">> /\ h1 = 12 THEN 0 ELSE h1
           IN  h2

(***************************************************************************)
(* The file system and os.path.                                            *)
(***************************************************************************)
BASE_PATH == <<"i", "m", "a", "g", "e", "n", "e", "s">>

\* The working directory of the server process.
CwdParts == << <<"s", "r", "v">> >>

Cwd == <<"/">> \o Join(CwdParts, "/")

DirNode(entries) == [kind |-> "dir", entries |-> entries]

FileNode == [kind |-> "file", entries |-> <<>>]

NoPath == <<"?">>

\* Every directory lists exactly its children, each once.
WellFormedFs(f) ==
  /\ <<>> \in DOMAIN f
  /\ \A p \in DOMAIN f :
       /\ f[p].kind \in {"dir", "file"}
       /\ \A i, j \in 1..Len(f[p].entries) :
            f[p].entries[i] = f[p].entries[j] => i = j
       /\ \A i \in 1..Len(f[p].entries) : Append(p, f[p].entries[i]) \in DOMAIN f
       /\ f[p].kind = "file" => f[p].entries = <<>>
       /\ p # <<>> =>
            LET parent == SubSeq(p, 1, Len(p) - 1)
            IN  /\ parent \in DOMAIN f
                /\ f[parent].kind = "dir"
                /\ IsIn(p[Len(p)], f[parent].entries)

\* os.path.join(a, b)
PathJoin(a, b) ==
  IF b # <<>> /\ Head(b) = "/" THEN b
  ELSE IF a = <<>> \/ a[Len(a)] = "/" THEN a \o b
  ELSE a \o <<"/">> \o b

\* The kernel's resolution of a path name, component by component, from
\* directory cur: the node's absolute path, or NoPath.
RECURSIVE Walk(_, _, _)
Walk(f, cur, comps) ==
  IF cur \notin DOMAIN f THEN NoPath
  ELSE IF comps = <<>> THEN cur
  ELSE IF f[cur].kind # "dir" THEN NoPath
  ELSE LET c == Head(comps)
       IN  IF c = <<>> \/ c = <<".">> THEN Walk(f, cur, Tail(comps))
           ELSE IF c = <<".", ".">>
             THEN Walk(f, IF cur = <<>> THEN cur ELSE SubSeq(cur, 1, Len(cur) - 1),
                       Tail(comps))
           ELSE Walk(f, Append(cur, c), Tail(comps))

Resolve(f, path) ==
  IF path = <<>> THEN NoPath
  ELSE Walk(f, IF Head(path) = "/" THEN <<>> ELSE CwdParts, Split(path, "/"))

\* os.path.exists, os.path.isdir, os.path.isfile
Exists(f, path) == Resolve(f, path) # NoPath

IsDir(f, path) == Exists(f, path) /\ f[Resolve(f, path)].kind = "dir"

IsFile(f, path) == Exists(f, path) /\ f[Resolve(f, path)].kind = "file"

\* os.listdir of a directory: its entries, in the file system's order.
ListDir(f, path) == f[Resolve(f, path)].entries

\* sorted(names): insertion of each name before the first greater one.
RECURSIVE InsertSorted(_, _)
InsertSorted(sorted, x) ==
  IF sorted = <<>> THEN <<x>>
  ELSE IF StrLess(x, Head(sorted)) THEN <<x>> \o sorted
  ELSE <<Head(sorted)>> \o InsertSorted(Tail(sorted), x)

RECURSIVE Sorted(_)
Sorted(names) ==
  IF names = <<>> THEN <<>>
  ELSE InsertSorted(Sorted(SubSeq(names, 1, Len(names) - 1)), names[Len(names)])

Reverse(seq) == [i \in 1..Len(seq) |-> seq[Len(seq) + 1 - i]]

(***************************************************************************)
(* datetime                                                                *)
(***************************************************************************)
MINYEAR == 1

MAXYEAR == 9999

IsLeap(y) == y % 4 = 0 /\ (y % 100 # 0 \/ y % 400 = 0)

DaysInMonth(y, m) ==
  IF m = 2 THEN (IF IsLeap(y) THEN 29 ELSE 28)
  ELSE IF m \in {4, 6, 9, 11} THEN 30
  ELSE 31

DaysBeforeYear(y) ==
  LET z == y - 1 IN z * 365 + (z \div 4) - (z \div 100) + (z \div 400)

RECURSIVE DaysBeforeMonth(_, _)
DaysBeforeMonth(y, m) ==
  IF m = 1 THEN 0 ELSE DaysBeforeMonth(y, m - 1) + DaysInMonth(y, m - 1)

\* date.toordinal(): 0001-01-01 is day 1
ToOrdinal(dt) == DaysBeforeYear(dt.y) + DaysBeforeMonth(dt.y, dt.m) + dt.d

MaxOrdinal == ToOrdinal([y |-> MAXYEAR, m |-> 12, d |-> 31])

\* date.fromordinal(n), for 1 <= n <= MaxOrdinal
FromOrdinal(n) ==
  LET y == CHOOSE yy \in ((n \div 366) + 1)..((n \div 365) + 1) :
             DaysBeforeYear(yy) < n /\ n <= DaysBeforeYear(yy + 1)
      r == n - DaysBeforeYear(y)
      m == CHOOSE mm \in 1..12 :
             DaysBeforeMonth(y, mm) < r /\ r <= DaysBeforeMonth(y, mm) + DaysInMonth(y, mm)
  IN  [y |-> y, m |-> m, d |-> r - DaysBeforeMonth(y, m)]

\* date.weekday(): Monday is 0
Weekday(dt) == (ToOrdinal(dt) + 6) % 7

\* The directive %m of strptime: 1[0-2]|0[1-9]|[1-9]
MonthText(t) ==
  \/ Len(t) = 2 /\ t[1] = "1" /\ t[2] \in {"0", "1", "2"}
  \/ Len(t) = 2 /\ t[1] = "0" /\ IsIn(t[2], Digits) /\ t[2] # "0"
  \/ Len(t) = 1 /\ IsIn(t[1], Digits) /\ t[1] # "0"

\* The directive %d of strptime: 3[01]|[12]\d|0[1-9]|[1-9]| [1-9]
DayText(t) ==
  \/ Len(t) = 2 /\ t[1] = "3" /\ t[2] \in {"0", "1"}
  \/ Len(t) = 2 /\ t[1] \in {"1", "2"} /\ IsIn(t[2], Digits)
  \/ Len(t) = 2 /\ t[1] \in {"0", " "} /\ IsIn(t[2], Digits) /\ t[2] # "0"
  \/ Len(t) = 1 /\ IsIn(t[1], Digits) /\ t[1] # "0"

\* datetime.strptime(s, "%Y-%m-%d") returns a date (otherwise it raises
\* ValueError): %Y is four digits, the whole string is consumed, and the
\* fields name a day of the calendar.
StrptimeOk(s) ==
  LET parts == Split(s, "-")
  IN  /\ Len(parts) = 3
      /\ Len(parts[1]) = 4 /\ AllDigits(parts[1])
      /\ MonthText(parts[2])
      /\ DayText(parts[3])
      /\ DigitsValue(parts[1]) >= MINYEAR
      /\ DigitsValue(Strip(parts[3])) <= DaysInMonth(DigitsValue(parts[1]), DigitsValue(parts[2]))

Strptime(s) ==
  LET parts == Split(s, "-")
  IN  [y |-> DigitsValue(parts[1]), m |-> DigitsValue(parts[2]),
       d |-> DigitsValue(Strip(parts[3]))]

\* date.strftime('%d/%m/%Y'), for the four-digit years of the model
Strftime(dt) == Pad2(dt.d) \o <<"/">> \o Pad2(dt.m) \o <<"/">> \o Dec(dt.y)

(***************************************************************************)
(* Responses.                                                              *)
(***************************************************************************)
\* abort(404)
NotFound == [kind |-> "abort", status |-> 404]

\* An exception no handler catches: Flask answers 500.
Unhandled(exc) == [kind |-> "error", status |-> 500, exc |-> exc]

(***************************************************************************)
(* show_hour                                                               *)
(***************************************************************************)
IMAGES_PER_PAGE == 12

Absent == <<"<", "a", "b", "s", "e", "n", "t", ">">>

\* request.args.get('page', 1, type=int): the default when the parameter is
\* absent or int() rejects it.
PageArg(arg) == IF arg = Absent \/ ~IntOk(arg) THEN 1 ELSE IntValue(arg)

\* An index of a slice, as list[start:stop] reads it: a negative index counts
\* from the end, and the result is clipped to 0..len.
SliceIndex(i, n) ==
  LET j == IF i < 0 THEN i + n ELSE i
  IN  IF j < 0 THEN 0 ELSE IF j > n THEN n ELSE j

\* seq[start:stop]
PySlice(seq, start, stop) ==
  LET lo == SliceIndex(start, Len(seq))
      hi == SliceIndex(stop, Len(seq))
  IN  IF lo < hi THEN SubSeq(seq, lo + 1, hi) ELSE <<>>

Paginate_floor(all_images, page) ==
  LET start_index == (page - 1) * IMAGES_PER_PAGE
      end_index == start_index + IMAGES_PER_PAGE
  IN  [images |-> PySlice(all_images, start_index, end_index),
       total_pages |-> Len(all_images) \div IMAGES_PER_PAGE]

\* start_index, end_index, images_on_page and total_pages of show_hour
Paginate(all_images, page) ==
  LET total_images == Len(all_images)
      start_index == (page - 1) * IMAGES_PER_PAGE
      end_index == start_index + IMAGES_PER_PAGE
  IN  [images |-> PySlice(all_images, start_index, end_index),
       total_pages |-> (total_images + IMAGES_PER_PAGE - 1) \div IMAGES_PER_PAGE]

\* os.path.splitext(filename)[0]: the name up to its last dot, unless only
\* dots precede that dot.
SplitextBase(name) ==
  LET dots == {i \in 1..Len(name) : name[i] = "."}
  IN  IF dots = {} THEN name
      ELSE LET dotIndex == CHOOSE i \in dots : \A j \in dots : j <= i
           IN  IF \E k \in 1..(dotIndex - 1) : name[k] # "."
                 THEN SubSeq(name, 1, dotIndex - 1)
                 ELSE name

\* str.replace(old, new) for a one-character old
RECURSIVE Replace(_, _, _)
Replace(str, old, new) ==
  IF str = <<>> THEN <<>>
  ELSE (IF Head(str) = old THEN new ELSE <<Head(str)>>) \o Replace(Tail(str), old, new)

format_time(filename) ==
  Replace(Replace(SplitextBase(filename), "m", <<"m", " ">>), "s", <<"s">>)

TimeRange(images_on_page) ==
  IF images_on_page = <<>> THEN <<>>
  ELSE <<"(">> \o format_time(images_on_page[1]) \o <<" ", "-", " ">>
         \o format_time(images_on_page[Len(images_on_page)]) \o <<")">>

show_hour(f, day, hour, page_arg) ==
  LET hour_path == PathJoin(PathJoin(BASE_PATH, day), hour)
  IN  IF ~Exists(f, hour_path) THEN NotFound
      ELSE IF ~IsDir(f, hour_path) THEN Unhandled("NotADirectoryError")
      ELSE LET page == PageArg(page_arg)
               all_images == Sorted(ListDir(f, hour_path))
               pg == Paginate(all_images, page)
           IN  IF ~StrptimeOk(day) THEN Unhandled("ValueError")
               ELSE [kind |-> "hour", status |-> 200, day |-> day,
                     display_day |-> Strftime(Strptime(day)), hour |-> hour,
                     images |-> pg.images, page |-> page,
                     total_pages |-> pg.total_pages,
                     time_range |-> TimeRange(pg.images)]

(***************************************************************************)
(* get_hour_data                                                           *)
(***************************************************************************)
\* Python's None, which is no file name.
None == <<"None">>

\* sorted(hours_list, key=sort_key): the sort is stable, so a name goes after
\* every name already placed whose key is not greater.
RECURSIVE InsertByKey(_, _)
InsertByKey(sorted, x) ==
  IF sorted = <<>> THEN <<x>>
  ELSE IF sort_key(x) < sort_key(Head(sorted)) THEN <<x>> \o sorted
  ELSE <<Head(sorted)>> \o InsertByKey(Tail(sorted), x)

RECURSIVE SortedByKey(_)
SortedByKey(names) ==
  IF names = <<>> THEN <<>>
  ELSE InsertByKey(SortedByKey(SubSeq(names, 1, Len(names) - 1)), names[Len(names)])

Thumbnail_unsorted(f, hour_path) ==
  LET images == ListDir(f, hour_path)
  IN  IF images # <<>> THEN images[1] ELSE None

\* images = sorted(os.listdir(hour_path)); images[0] if images else None
Thumbnail(f, hour_path) ==
  LET images == Sorted(ListDir(f, hour_path))
  IN  IF images # <<>> THEN images[1] ELSE None

RECURSIVE HourEntries(_, _, _)
HourEntries(f, day_path, sorted_hours) ==
  IF sorted_hours = <<>> THEN <<>>
  ELSE LET hour == Head(sorted_hours)
           hour_path == PathJoin(day_path, hour)
           rest == HourEntries(f, day_path, Tail(sorted_hours))
       IN  IF IsDir(f, hour_path)
             THEN <<[hour |-> hour, thumbnail |-> Thumbnail(f, hour_path)]>> \o rest
             ELSE rest

get_hour_data(f, day_path) ==
  IF ~IsDir(f, day_path) THEN <<>>
  ELSE HourEntries(f, day_path, SortedByKey(ListDir(f, day_path)))

(***************************************************************************)
(* group_by_weeks                                                          *)
(***************************************************************************)
WeekSep == <<" ", "-", " ">>

\* weeks[week_label].append(record), the label added at the end of the
\* mapping when it is new: a dict keeps its keys in insertion order.
AddToWeek(weeks, week_label, record) ==
  IF \E i \in 1..Len(weeks) : weeks[i].label = week_label
    THEN [i \in 1..Len(weeks) |->
            IF weeks[i].label = week_label
              THEN [weeks[i] EXCEPT !.days = Append(@, record)]
              ELSE weeks[i]]
    ELSE Append(weeks, [label |-> week_label, days |-> <<record>>])

\* The loop over the items: the mapping built, or the exception that ends it.
\* date + timedelta raises OverflowError past MAXYEAR; only ValueError is caught.
RECURSIVE WeekLoop(_, _, _)
WeekLoop(f, items, weeks) ==
  IF items = <<>> THEN [kind |-> "weeks", weeks |-> weeks]
  ELSE LET item == Head(items)
       IN  IF ~IsDir(f, PathJoin(BASE_PATH, item)) \/ ~StrptimeOk(item)
             THEN WeekLoop(f, Tail(items), weeks)
           ELSE LET date == Strptime(item)
                    monday == ToOrdinal(date) - Weekday(date)
                    sunday == monday + 6
                IN  IF sunday > MaxOrdinal THEN Unhandled("OverflowError")
                    ELSE WeekLoop(f, Tail(items),
                           AddToWeek(weeks,
                             Strftime(FromOrdinal(monday)) \o WeekSep
                               \o Strftime(FromOrdinal(sunday)),
                             [path |-> item, display |-> Strftime(date)]))

group_by_weeks(f) ==
  IF ~Exists(f, BASE_PATH) THEN [kind |-> "weeks", weeks |-> <<>>]
  ELSE IF ~IsDir(f, BASE_PATH) THEN Unhandled("NotADirectoryError")
  ELSE WeekLoop(f, Reverse(Sorted(ListDir(f, BASE_PATH))), <<>>)

(***************************************************************************)
(* serve_image_path                                                        *)
(***************************************************************************)
NonEmpty(parts) == SelectSeq(parts, LAMBDA c : c # <<>>)

\* The loop of os.path.normpath over the components.
RECURSIVE NormComps(_, _, _)
NormComps(comps, new_comps, rooted) ==
  IF comps = <<>> THEN new_comps
  ELSE LET comp == Head(comps)
       IN  IF comp = <<>> \/ comp = <<".">> THEN NormComps(Tail(comps), new_comps, rooted)
           ELSE IF \/ comp # <<".", ".">>
                   \/ (~rooted /\ new_comps = <<>>)
                   \/ (new_comps # <<>> /\ new_comps[Len(new_comps)] = <<".", ".">>)
             THEN NormComps(Tail(comps), Append(new_comps, comp), rooted)
           ELSE IF new_comps # <<>>
             THEN NormComps(Tail(comps), SubSeq(new_comps, 1, Len(new_comps) - 1), rooted)
           ELSE NormComps(Tail(comps), new_comps, rooted)

\* os.path.normpath(path)
Normpath(path) ==
  IF path = <<>> THEN <<".">>
  ELSE LET initial_slashes ==
             IF Head(path) # "/" THEN 0
             ELSE IF StartsWith(path, <<"/", "/">>) /\ ~StartsWith(path, <<"/", "/", "/">>)
               THEN 2
             ELSE 1
           joined == Join(NormComps(Split(path, "/"), <<>>, initial_slashes > 0), "/")
           out == [i \in 1..initial_slashes |-> "/"] \o joined
       IN  IF out = <<>> THEN <<".">> ELSE out

\* os.path.abspath(path)
Abspath(path) == Normpath(PathJoin(Cwd, path))

\* os.path.split(path): the part before the last slash, without its trailing
\* slashes unless it is all slashes, and the part after it.
PathSplit(path) ==
  LET slashes == {i \in 1..Len(path) : path[i] = "/"}
      i == IF slashes = {} THEN 0 ELSE CHOOSE k \in slashes : \A j \in slashes : j <= k
      head == SubSeq(path, 1, i)
      tail == SubSeq(path, i + 1, Len(path))
      RECURSIVE RStripSlash(_)
      RStripSlash(h) ==
        IF h # <<>> /\ h[Len(h)] = "/" THEN RStripSlash(SubSeq(h, 1, Len(h) - 1)) ELSE h
  IN  [head |-> IF \A k \in 1..Len(head) : head[k] = "/" THEN head ELSE RStripSlash(head),
       tail |-> tail]

\* send_from_directory(directory, filename) for a file name without a slash:
\* the file when it is a regular file, NotFound otherwise.
send_from_directory(f, directory, filename) ==
  LET path == PathJoin(directory, filename)
  IN  IF filename = <<>> \/ ~IsFile(f, path) THEN NotFound
      ELSE [kind |-> "file", status |-> 200, path |-> Resolve(f, path)]

\* safe_path.startswith(os.path.abspath(app.config['BASE_PATH']))
InsideBase(safe_path) == StartsWith(safe_path, Abspath(BASE_PATH))

serve_image_path(f, filepath) ==
  LET safe_path == Abspath(PathJoin(BASE_PATH, filepath))
  IN  IF ~InsideBase(safe_path) THEN NotFound
      ELSE LET sp == PathSplit(safe_path)
           IN  send_from_directory(f, sp.head, sp.tail)

(***************************************************************************)
(* show_day and index                                                      *)
(***************************************************************************)
show_day(f, day) ==
  LET day_path == PathJoin(BASE_PATH, day)
  IN  IF ~Exists(f, day_path) THEN NotFound
      ELSE IF ~StrptimeOk(day) THEN Unhandled("ValueError")
      ELSE [kind |-> "day", status |-> 200, day |-> day,
            display_day |-> Strftime(Strptime(day)),
            hours |-> get_hour_data(f, day_path)]

index(f) ==
  LET weeks == group_by_weeks(f)
  IN  IF weeks.kind = "error" THEN weeks
      ELSE [kind |-> "index", status |-> 200, weeks |-> weeks.weeks]

(***************************************************************************)
(* Users, login and logout                                                 *)
(***************************************************************************)
\* generate_password_hash, without its salt
generate_password_hash(password) == <<"hash", password>>

check_password_hash(pwhash, password) == pwhash = generate_password_hash(password)

users_db ==
  [id \in {"1"} |->
     [id |-> "1", username |-> "admin",
      password_hash |-> generate_password_hash("@Cebiche123")]]

check_password_any(user, password) == TRUE

\* User.check_password
check_password(user, password) == check_password_hash(user.password_hash, password)

\* load_user and current_user.is_authenticated
is_authenticated(sess) == sess.user_id \in DOMAIN users_db

RedirectLogin == [kind |-> "redirect", status |-> 302, location |-> "/login"]

RedirectIndex == [kind |-> "redirect", status |-> 302, location |-> "/"]

LoginPage == [kind |-> "login_page", status |-> 200]

\* form.validate_on_submit(): a POST whose CSRF token is valid and whose
\* required fields are not blank.
validate_on_submit(method, form) ==
  /\ method = "POST"
  /\ form.csrf_ok
  /\ form.username # ""
  /\ form.password # ""

\* login: the response and the session it leaves.
login(sess, method, form) ==
  IF is_authenticated(sess) THEN [response |-> RedirectIndex, session |-> sess]
  ELSE IF validate_on_submit(method, form)
    THEN LET found == {id \in DOMAIN users_db : users_db[id].username = form.username}
         IN  IF found # {} /\ check_password(users_db[CHOOSE id \in found : TRUE], form.password)
               THEN [response |-> RedirectIndex,
                     session |-> [user_id |-> CHOOSE id \in found : TRUE,
                                  remember |-> form.remember_me]]
               ELSE [response |-> RedirectLogin, session |-> sess]
  ELSE [response |-> LoginPage, session |-> sess]

\* @login_required: the view's response for an authenticated user, the
\* redirect to login_view otherwise.
login_required(sess, view_response) ==
  IF is_authenticated(sess) THEN view_response ELSE RedirectLogin

(***************************************************************************)
(* Idle values of the variables an operation does not use.                 *)
(***************************************************************************)
Clients == {"c1", "c2"}

Anonymous == [user_id |-> "", remember |-> FALSE]

NoSessions == [c \in Clients |-> Anonymous]

NoEvents == [c \in Clients |-> "none"]

NoFs == <<>>

Pending == [kind |-> "pending"]

(***************************************************************************)
(* SpecSortKey: sort_key applied to one folder name.                       *)
(***************************************************************************)
AmPmCases ==
  {<<a, m>> : a \in {"a", "A", "p", "P"}, m \in {"m", "M"}}

NumTokens ==
  {Dec(n) : n \in 0..MaxHourNum}
    \cup {<<"0", "7">>, <<"-", "1">>, <<"+", "7">>, <<" ", "7">>, <<"1", "0", "0">>,
          <<"a", "b", "c">>, <<".", "D", "S">>, <<>>}

Suffixes ==
  {<<>>} \cup {<<"_">> \o ap : ap \in AmPmCases}
        \cup {<<"_">>, <<"_", "x", "m">>, <<"_", "a", "m", "_", "x">>}

HourNames == {t \o s : t \in NumTokens, s \in Suffixes}

InitSortKey ==
  /\ fs = NoFs
  /\ session = NoSessions
  /\ lastEvent = NoEvents
  /\ \E name \in HourNames : request = [fn |-> "sort_key", arg |-> name]
  /\ response = Pending

CallSortKey ==
  /\ request.fn = "sort_key"
  /\ response = Pending
  /\ response' = [kind |-> "key", key |-> sort_key(request.arg)]
  /\ UNCHANGED <<fs, session, lastEvent, request>>

NextSortKey == CallSortKey

SpecSortKey == InitSortKey /\ [][NextSortKey]_vars

\* The 24-hour value of hour N of the 12-hour clock.
Hour24(N, pm) == (N % 12) + (IF pm THEN 12 ELSE 0)

IsPm(ap) == Lower(ap) = <<"p", "m">>

ValidNames(N, ap) == {Dec(N) \o <<"_">> \o ap, Pad2(N) \o <<"_">> \o ap}

\* C3: for every name <N>_<am|pm>, N in 1..12, in any letter case, the key is
\* the 24-hour value of that time, lies in 0..23, and no valid name of another
\* time has the same key.
C3_HourKeyIs24h ==
  response.kind = "key" =>
    \A N \in 1..12, ap \in AmPmCases :
      request.arg \in ValidNames(N, ap) =>
        /\ response.key = Hour24(N, IsPm(ap))
        /\ response.key \in 0..23
        /\ \A N2 \in 1..12, ap2 \in AmPmCases :
             (N2 # N \/ IsPm(ap2) # IsPm(ap)) =>
               \A other \in ValidNames(N2, ap2) : sort_key(other) # response.key

C3_Witness ==
  /\ response.kind = "key"
  /\ request.arg = <<"1", "2", "_", "P", "M">>
  /\ response.key = 12

\* C4: a name whose first token is not an integer, or is an integer outside
\* 1..12, has key 99; every key is in 0..23 or is 99.
C4_SentinelOnParseFailure ==
  response.kind = "key" =>
    LET tok == Split(request.arg, "_")[1]
    IN  /\ (~IntOk(tok) \/ IntValue(tok) \notin 1..12) => response.key = SENTINEL
        /\ response.key \in (0..23) \cup {SENTINEL}

(***************************************************************************)
(* Construction of file systems: a tree below BASE_PATH, given as a        *)
(* function from paths relative to it, inside the working directory.       *)
(***************************************************************************)
BaseParts == Append(CwdParts, BASE_PATH)

UnderBase(tree) ==
  [p \in {BaseParts \o q : q \in DOMAIN tree} |->
     tree[SubSeq(p, Len(BaseParts) + 1, Len(p))]]

Sibling == BASE_PATH \o <<"2">>

Secret == <<"s", ".", "j", "p", "g">>

Etc == <<"e", "t", "c">>

Passwd == <<"p", "a", "s", "s", "w", "d">>

\* The directories above BASE_PATH; with outside, also a sibling directory whose
\* name begins with BASE_PATH and a file elsewhere, each outside the root.
SiteFs(tree, outside) ==
  IF outside
    THEN (<<>> :> DirNode(CwdParts \o <<Etc>>))
           @@ (CwdParts :> DirNode(<<BASE_PATH, Sibling>>))
           @@ (Append(CwdParts, Sibling) :> DirNode(<<Secret>>))
           @@ (CwdParts \o <<Sibling, Secret>> :> FileNode)
           @@ (<<Etc>> :> DirNode(<<Passwd>>))
           @@ (<<Etc, Passwd>> :> FileNode)
           @@ UnderBase(tree)
    ELSE (<<>> :> DirNode(CwdParts)) @@ (CwdParts :> DirNode(<<BASE_PATH>>))
           @@ UnderBase(tree)

GalleryFs(tree) == SiteFs(tree, FALSE)

Day0 == <<"2", "0", "2", "4", "-", "0", "6", "-", "1", "0">>

Hour0 == <<"9", "_", "a", "m">>

(***************************************************************************)
(* SpecPage: show_hour on an hour directory of L images.                   *)
(***************************************************************************)
ImageName(i) ==
  Pad2(i) \o <<"m">> \o Pad2((i * 7) % 60) \o <<"s", ".", "j", "p", "g">>

ImageNames(L) == [i \in 1..L |-> ImageName(i)]

HourTree(listing) ==
  (<<>> :> DirNode(<<Day0>>)) @@ (<<Day0>> :> DirNode(<<Hour0>>))
    @@ (<<Day0, Hour0>> :> DirNode(listing))
    @@ [p \in {<<Day0, Hour0, listing[i]>> : i \in 1..Len(listing)} |-> FileNode]

Numeral(n) == IF n < 0 THEN <<"-">> \o Dec(0 - n) ELSE Dec(n)

PageArgs ==
  {Numeral(n) : n \in (0 - MaxPage)..MaxPage} \cup {Absent, <<"a", "b", "c">>}

InitPage ==
  /\ \E L \in 0..MaxImages :
       \E listing \in {ImageNames(L), Reverse(ImageNames(L))} :
         fs = GalleryFs(HourTree(listing))
  /\ session = NoSessions
  /\ lastEvent = NoEvents
  /\ \E arg \in PageArgs :
       request = [fn |-> "show_hour", day |-> Day0, hour |-> Hour0, page |-> arg]
  /\ response = Pending

CallShowHour ==
  /\ request.fn = "show_hour"
  /\ response = Pending
  /\ response' = show_hour(fs, request.day, request.hour, request.page)
  /\ UNCHANGED <<fs, session, lastEvent, request>>

NextPage == CallShowHour

SpecPage == InitPage /\ [][NextPage]_vars

\* ceil(L / P), from its definition
Ceil(L, P) == CHOOSE n \in 0..L : n * P >= L /\ (n = 0 \/ (n - 1) * P < L)

Min(a, b) == IF a < b THEN a ELSE b

RECURSIVE ConcatPages(_, _, _, _)
ConcatPages(f, day, hour, k) ==
  IF k = 0 THEN <<>>
  ELSE ConcatPages(f, day, hour, k - 1) \o show_hour(f, day, hour, Numeral(k)).images

\* C5: a page number above the page count, zero or negative gives an empty
\* slice and an empty time-range label, without an error.
C5_OutOfRangePageIsEmpty ==
  (request.fn = "show_hour" /\ response # Pending) =>
    LET L == Len(ListDir(fs, PathJoin(PathJoin(BASE_PATH, request.day), request.hour)))
        page == PageArg(request.page)
    IN  (page > Ceil(L, IMAGES_PER_PAGE) \/ page <= 0) =>
          /\ response.kind = "hour"
          /\ response.images = <<>>
          /\ response.time_range = <<>>

\* C6: the page count is ceil(L/P); page k of 1..count is the elements of the
\* sorted list at indices [(k-1)P, kP) clipped to the list and is not empty; the
\* pages 1..count in order give back the whole list, each image on one page.
C6_PagesPartitionTheList ==
  (request.fn = "show_hour" /\ response # Pending) =>
    LET P == IMAGES_PER_PAGE
        listing == ListDir(fs, PathJoin(PathJoin(BASE_PATH, request.day), request.hour))
        all == Sorted(listing)
        L == Len(listing)
        T == Ceil(L, P)
        Slice(k) == [i \in 1..(Min(k * P, L) - (k - 1) * P) |-> all[(k - 1) * P + i]]
        PageOf(k) == show_hour(fs, request.day, request.hour, Numeral(k))
    IN  /\ Len(all) = L
        /\ \A i \in 1..L : IsIn(listing[i], all)
        /\ \A i \in 1..(L - 1) : StrLess(all[i], all[i + 1])
        /\ response.kind = "hour"
        /\ response.total_pages = T
        /\ response.page \in 1..T => response.images = Slice(response.page)
        /\ \A k \in 1..T :
             /\ PageOf(k).total_pages = T
             /\ PageOf(k).images = Slice(k)
             /\ PageOf(k).images # <<>>
        /\ ConcatPages(fs, request.day, request.hour, T) = all
        /\ \A i \in 1..L :
             Cardinality({k \in 1..T : IsIn(all[i], PageOf(k).images)}) = 1

C6_Witness ==
  /\ request.fn = "show_hour"
  /\ response # Pending
  /\ response.kind = "hour"
  /\ response.page = 3
  /\ response.total_pages = 3
  /\ Len(response.images) = 2
  /\ ListDir(fs, PathJoin(PathJoin(BASE_PATH, Day0), Hour0))[1] = ImageName(26)

(***************************************************************************)
(* SpecHours: get_hour_data on a day directory, for every listing order of *)
(* up to MaxEntries entries and every layout of their contents.            *)
(***************************************************************************)
HourCandidates ==
  << <<"1", "2", "_", "a", "m">>, <<"9", "_", "a", "m">>, <<"9", "_", "A", "M">>,
     <<"1", "_", "p", "m">>, <<"0", "_", "a", "m">>, <<"a", "b", "c">>,
     <<".", "D", "S">> >>

ContentTypes == <<"file", "empty", "flat", "normal", "normal_empty", "mixed">>

NormalName == <<"n", "o", "r", "m", "a", "l">>

Jpg(c) == <<c, ".", "j", "p", "g">>

\* The subtree of one entry of the day directory, at path p.
EntryTree(p, ctype) ==
  CASE ctype = "file" -> (p :> FileNode)
    [] ctype = "empty" -> (p :> DirNode(<<>>))
    [] ctype = "flat" ->
         (p :> DirNode(<<Jpg("b"), Jpg("a")>>))
           @@ (Append(p, Jpg("b")) :> FileNode) @@ (Append(p, Jpg("a")) :> FileNode)
    [] ctype = "normal" ->
         (p :> DirNode(<<NormalName>>))
           @@ (Append(p, NormalName) :> DirNode(<<Jpg("d"), Jpg("c")>>))
           @@ (p \o <<NormalName, Jpg("d")>> :> FileNode)
           @@ (p \o <<NormalName, Jpg("c")>> :> FileNode)
    [] ctype = "normal_empty" ->
         (p :> DirNode(<<NormalName>>)) @@ (Append(p, NormalName) :> DirNode(<<>>))
    [] ctype = "mixed" ->
         (p :> DirNode(<<NormalName, Jpg("a")>>))
           @@ (Append(p, NormalName) :> DirNode(<<Jpg("c")>>))
           @@ (p \o <<NormalName, Jpg("c")>> :> FileNode)
           @@ (Append(p, Jpg("a")) :> FileNode)

ContentOf(name, layout) ==
  ContentTypes[((IndexOf(name, HourCandidates) + layout) % Len(ContentTypes)) + 1]

RECURSIVE EntryTrees(_, _, _)
EntryTrees(dir, listing, layout) ==
  IF listing = <<>> THEN <<>> :> DirNode(<<>>)
  ELSE EntryTree(Append(dir, Head(listing)), ContentOf(Head(listing), layout))
         @@ EntryTrees(dir, Tail(listing), layout)

DayTree(day, listing, layout) ==
  (<<>> :> DirNode(<<day>>)) @@ (<<day>> :> DirNode(listing))
    @@ EntryTrees(<<day>>, listing, layout)

\* The sequences of at most n distinct elements of the sequence cands.
RECURSIVE Listings(_, _)
Listings(cands, n) ==
  IF n = 0 THEN {<<>>}
  ELSE LET shorter == Listings(cands, n - 1)
       IN  shorter \cup {Append(l, cands[i]) : l \in shorter, i \in 1..Len(cands)}

DistinctListings(cands, n) ==
  {l \in Listings(cands, n) : \A i, j \in 1..Len(l) : l[i] = l[j] => i = j}

MissingDay == <<"2", "0", "2", "4", "-", "0", "6", "-", "1", "1">>

InitHours ==
  /\ \E listing \in DistinctListings(HourCandidates, MaxEntries) :
       \E layout \in 0..(Len(ContentTypes) - 1) :
         fs = GalleryFs(DayTree(Day0, listing, layout))
  /\ session = NoSessions
  /\ lastEvent = NoEvents
  /\ \E day \in {Day0, MissingDay} :
       request = [fn |-> "get_hour_data", day_path |-> PathJoin(BASE_PATH, day)]
  /\ response = Pending

CallGetHourData ==
  /\ request.fn = "get_hour_data"
  /\ response = Pending
  /\ response' = [kind |-> "hours", hours |-> get_hour_data(fs, request.day_path)]
  /\ UNCHANGED <<fs, session, lastEvent, request>>

NextHours == CallGetHourData

SpecHours == InitHours /\ [][NextHours]_vars

\* The listing of the day directory of the request, empty when it is missing.
DayListing ==
  IF IsDir(fs, request.day_path) THEN ListDir(fs, request.day_path) ELSE <<>>

BucketPath(hour) == PathJoin(request.day_path, hour)

\* The least of a non-empty sequence of names.
Least(names) ==
  CHOOSE x \in {names[i] : i \in 1..Len(names)} :
    \A i \in 1..Len(names) : ~StrLess(names[i], x)

PositionIn(x, seq) == CHOOSE i \in 1..Len(seq) : seq[i] = x

ValidHourName(name) ==
  \E N \in 1..12, ap \in AmPmCases : name \in ValidNames(N, ap)

KeyOfValid(name) ==
  LET c == CHOOSE c \in (1..12) \X AmPmCases : name \in ValidNames(c[1], c[2])
  IN  Hour24(c[1], IsPm(c[2]))

\* C10: the validly named buckets are in non-decreasing 24-hour order, every
\* bucket with another name comes after all of them, buckets of equal key keep
\* their listing order, and the output is a permutation of the subdirectories.
C10_ValidFirstInKeyOrder ==
  response.kind = "hours" =>
    LET out == response.hours
    IN  /\ \A i, j \in 1..Len(out) :
             i < j =>
               /\ (ValidHourName(out[i].hour) /\ ValidHourName(out[j].hour)) =>
                    KeyOfValid(out[i].hour) <= KeyOfValid(out[j].hour)
               /\ ~(~ValidHourName(out[i].hour) /\ ValidHourName(out[j].hour))
               /\ sort_key(out[i].hour) = sort_key(out[j].hour) =>
                    PositionIn(out[i].hour, DayListing) < PositionIn(out[j].hour, DayListing)
        /\ \A i \in 1..Len(DayListing) :
             IsDir(fs, BucketPath(DayListing[i])) <=>
               \E j \in 1..Len(out) : out[j].hour = DayListing[i]
        /\ \A i, j \in 1..Len(out) : out[i].hour = out[j].hour => i = j
        /\ \A j \in 1..Len(out) : IsIn(out[j].hour, DayListing)

\* C10 holds when the names placed last are those whose key is the sentinel:
\* the buckets are in non-decreasing key order, equal keys in listing order.
C10_HoldsForSentinelNames ==
  response.kind = "hours" =>
    LET out == response.hours
    IN  \A i, j \in 1..Len(out) :
          i < j =>
            /\ sort_key(out[i].hour) <= sort_key(out[j].hour)
            /\ ~(sort_key(out[i].hour) = SENTINEL /\ ValidHourName(out[j].hour))
            /\ sort_key(out[i].hour) = sort_key(out[j].hour) =>
                 PositionIn(out[i].hour, DayListing) < PositionIn(out[j].hour, DayListing)

(***************************************************************************)
(* SpecWeeks: group_by_weeks on a root of up to MaxRootEntries entries, in *)
(* every listing order, at most one of them a regular file.                *)
(***************************************************************************)
RootCandidates ==
  << <<"2", "0", "2", "4", "-", "0", "1", "-", "0", "7">>,
     <<"2", "0", "2", "4", "-", "0", "1", "-", "0", "8">>,
     <<"2", "0", "2", "4", "-", "0", "1", "-", "1", "4">>,
     <<"2", "0", "2", "4", "-", "0", "1", "-", "1", "5">>,
     <<"2", "0", "2", "4", "-", "1", "-", "8">>,
     <<"2", "0", "2", "3", "-", "1", "2", "-", "3", "1">>,
     <<"2", "0", "2", "4", "-", "0", "1", "-", "0", "1">>,
     <<"2", "0", "2", "4", "-", "0", "2", "-", "3", "0">>,
     <<"a", "b", "c">>,
     <<"9", "9", "9", "9", "-", "1", "2", "-", "3", "1">> >>

RootTree(listing, file) ==
  (<<>> :> DirNode(listing))
    @@ [p \in {<<listing[i]>> : i \in 1..Len(listing)} |->
          IF p[1] = file THEN FileNode ELSE DirNode(<<>>)]

\* The file system without the image directory.
NoBaseFs == (<<>> :> DirNode(CwdParts)) @@ (CwdParts :> DirNode(<<>>))

InitWeeks ==
  /\ \/ \E listing \in DistinctListings(RootCandidates, MaxRootEntries) :
          \E file \in {listing[i] : i \in 1..Len(listing)} \cup {None} :
            fs = GalleryFs(RootTree(listing, file))
     \/ fs = NoBaseFs
  /\ session = NoSessions
  /\ lastEvent = NoEvents
  /\ request = [fn |-> "group_by_weeks"]
  /\ response = Pending

CallGroupByWeeks ==
  /\ request.fn = "group_by_weeks"
  /\ response = Pending
  /\ response' = group_by_weeks(fs)
  /\ UNCHANGED <<fs, session, lastEvent, request>>

NextWeeks == CallGroupByWeeks

SpecWeeks == InitWeeks /\ [][NextWeeks]_vars

RootListing == IF IsDir(fs, BASE_PATH) THEN ListDir(fs, BASE_PATH) ELSE <<>>

\* The entries of the root that are directories named as a date.
DayDirs ==
  {RootListing[i] : i \in {j \in 1..Len(RootListing) :
      /\ IsDir(fs, PathJoin(BASE_PATH, RootListing[j]))
      /\ StrptimeOk(RootListing[j])}}

\* The places <<week, index>> of the records of the output.
Places(weeks) ==
  {<<w, k>> \in (1..Len(weeks)) \X (1..MaxRootEntries + 1) : k <= Len(weeks[w].days)}

\* Ordinal 1 is a Monday, so the Mondays are the ordinals n with n % 7 = 1.
MondayOf(ordinal) == CHOOSE n \in (ordinal - 6)..ordinal : n % 7 = 1

\* C7: the output holds each directory named as a date exactly once, in the
\* list of the week label of the Monday..Sunday span that contains the date,
\* and holds nothing else; two days share a list iff they share a span.
C7_EachDayInItsWeek ==
  (request.fn = "group_by_weeks" /\ response # Pending) =>
    /\ response.kind = "weeks"
    /\ LET weeks == response.weeks
           Path(pl) == weeks[pl[1]].days[pl[2]].path
           Ordinal(pl) == ToOrdinal(Strptime(Path(pl)))
       IN  /\ \A d \in DayDirs :
                Cardinality({pl \in Places(weeks) : Path(pl) = d}) = 1
           /\ \A pl \in Places(weeks) :
                /\ Path(pl) \in DayDirs
                /\ MondayOf(Ordinal(pl)) + 6 <= MaxOrdinal
                /\ weeks[pl[1]].label =
                     Strftime(FromOrdinal(MondayOf(Ordinal(pl)))) \o WeekSep
                       \o Strftime(FromOrdinal(MondayOf(Ordinal(pl)) + 6))
                /\ weeks[pl[1]].days[pl[2]].display = Strftime(Strptime(Path(pl)))
           /\ \A p1, p2 \in Places(weeks) :
                p1[1] = p2[1] <=> MondayOf(Ordinal(p1)) = MondayOf(Ordinal(p2))
           /\ \A w \in 1..Len(weeks) : weeks[w].days # <<>>

\* C7 holds of every root in which no directory is named as a date of the
\* last week of MAXYEAR, whose Sunday no date can hold.
C7_HoldsBelowLastWeek ==
  (\A d \in DayDirs : MondayOf(ToOrdinal(Strptime(d))) + 6 <= MaxOrdinal) =>
    C7_EachDayInItsWeek

(***************************************************************************)
(* SpecImage: serve_image_path on one caller-supplied path.                *)
(***************************************************************************)
DotDot == <<".", ".">>

PathComponents == <<DotDot, Sibling, Secret, Day0, Hour0, Jpg("a"), Etc, Passwd>>

\* The paths of at most n components, relative or absolute.
FilePaths(n) ==
  LET rel == {Join(l, "/") : l \in Listings(PathComponents, n) \ {<<>>}}
  IN  rel \cup {<<"/">> \o q : q \in rel}

ImageTree ==
  (<<>> :> DirNode(<<Day0>>)) @@ (<<Day0>> :> DirNode(<<Hour0>>))
    @@ (<<Day0, Hour0>> :> DirNode(<<Jpg("b"), Jpg("a")>>))
    @@ (<<Day0, Hour0, Jpg("b")>> :> FileNode)
    @@ (<<Day0, Hour0, Jpg("a")>> :> FileNode)

InitImage ==
  /\ \E outside \in BOOLEAN : fs = SiteFs(ImageTree, outside)
  /\ session = NoSessions
  /\ lastEvent = NoEvents
  /\ \E filepath \in FilePaths(MaxDepth) :
       request = [fn |-> "serve_image_path", filepath |-> filepath]
  /\ response = Pending

CallServeImagePath ==
  /\ request.fn = "serve_image_path"
  /\ response = Pending
  /\ response' = serve_image_path(fs, request.filepath)
  /\ UNCHANGED <<fs, session, lastEvent, request>>

NextImage == CallServeImagePath

SpecImage == InitImage /\ [][NextImage]_vars

\* The components of the path that abspath resolves the request to.
ResolvedParts(filepath) ==
  NonEmpty(Split(Abspath(PathJoin(BASE_PATH, filepath)), "/"))

\* A path that is the root or a descendant of it, component by component.
UnderRoot(parts) ==
  /\ Len(parts) >= Len(BaseParts)
  /\ SubSeq(parts, 1, Len(BaseParts)) = BaseParts

\* C2: a file that is served lies at the resolved root or below it, and a path
\* that resolves outside the root is answered NotFound.
C2_NothingServedOutsideRoot ==
  (request.fn = "serve_image_path" /\ response # Pending) =>
    /\ response.kind = "file" => UnderRoot(response.path)
    /\ ~UnderRoot(ResolvedParts(request.filepath)) => response = NotFound

(***************************************************************************)
(* Spec: the server, its routes requested by the clients in any order.     *)
(***************************************************************************)
BadDay == <<"a", "b", "c">>

ServerTree(bad) ==
  IF bad
    THEN (<<>> :> DirNode(<<BadDay, Day0>>)) @@ (<<BadDay>> :> DirNode(<<Hour0>>))
           @@ (<<BadDay, Hour0>> :> DirNode(<<>>))
           @@ [p \in DOMAIN ImageTree \ {<<>>} |-> ImageTree[p]]
    ELSE ImageTree

Usernames == {"admin", "guest", ""}

Passwords == {"@Cebiche123", "wrong", ""}

Forms ==
  [username : Usernames, password : Passwords, csrf_ok : BOOLEAN, remember_me : BOOLEAN]

Days == {Day0, MissingDay, BadDay, <<"x", "y", "z">>}

Hours == {Hour0, <<"3", "_", "p", "m">>}

Pages == {Absent, <<"2">>, <<"-", "1">>}

RequestPaths ==
  {Join(<<Day0, Hour0, Jpg("a")>>, "/"), Join(<<DotDot, Sibling, Secret>>, "/"),
   <<"/">> \o Join(<<Etc, Passwd>>, "/"), Jpg("z")}

Init ==
  /\ \E bad \in BOOLEAN : fs = SiteFs(ServerTree(bad), TRUE)
  /\ session = NoSessions
  /\ lastEvent = NoEvents
  /\ request = [route |-> "none"]
  /\ response = Pending

\* The attempt submits the form with the configured credentials.
SuccessfulLogin(method, form) ==
  /\ method = "POST"
  /\ form.csrf_ok
  /\ form.username = "admin"
  /\ form.password = "@Cebiche123"

Login(c) ==
  \E method \in {"GET", "POST"}, form \in Forms :
    LET r == login(session[c], method, form)
    IN  /\ request' = [route |-> "/login", client |-> c, method |-> method, form |-> form]
        /\ response' = r.response
        /\ session' = [session EXCEPT ![c] = r.session]
        /\ lastEvent' = IF SuccessfulLogin(method, form)
                          THEN [lastEvent EXCEPT ![c] = "login_ok"]
                          ELSE lastEvent
        /\ UNCHANGED fs

\* logout: logout_user() clears the user and the remember-me mark.
Logout(c) ==
  /\ request' = [route |-> "/logout", client |-> c]
  /\ response' = login_required(session[c], RedirectLogin)
  /\ session' = IF is_authenticated(session[c])
                  THEN [session EXCEPT ![c] = Anonymous]
                  ELSE session
  /\ lastEvent' = [lastEvent EXCEPT ![c] = "logout"]
  /\ UNCHANGED fs

Index(c) ==
  /\ request' = [route |-> "/", client |-> c]
  /\ response' = login_required(session[c], index(fs))
  /\ UNCHANGED <<fs, session, lastEvent>>

ShowDay(c) ==
  \E day \in Days :
    /\ request' = [route |-> "/day", client |-> c, day |-> day]
    /\ response' = login_required(session[c], show_day(fs, day))
    /\ UNCHANGED <<fs, session, lastEvent>>

ShowHour(c) ==
  \E day \in Days, hour \in Hours, page \in Pages :
    /\ request' = [route |-> "/hour", client |-> c, day |-> day, hour |-> hour,
                   page |-> page]
    /\ response' = login_required(session[c], show_hour(fs, day, hour, page))
    /\ UNCHANGED <<fs, session, lastEvent>>

ServeImage(c) ==
  \E filepath \in RequestPaths :
    /\ request' = [route |-> "/images", client |-> c, filepath |-> filepath]
    /\ response' = login_required(session[c], serve_image_path(fs, filepath))
    /\ UNCHANGED <<fs, session, lastEvent>>

Next ==
  \E c \in Clients :
    \/ Login(c)
    \/ Logout(c)
    \/ Index(c)
    \/ ShowDay(c)
    \/ ShowHour(c)
    \/ ServeImage(c)

Spec == Init /\ [][Next]_vars

\* A response that carries content of the gallery.
IsGallery(r) == r.kind \in {"index", "day", "hour", "file"}

\* C1: a client holds a session exactly when its last login or logout was a
\* successful login; a route other than /login answers with gallery content only
\* to a client that holds one, and redirects every other client to the login page.
C1_GalleryOnlyWithSession ==
  /\ \A c \in Clients : is_authenticated(session[c]) <=> lastEvent[c] = "login_ok"
  /\ request.route \notin {"none", "/login"} =>
       /\ IsGallery(response) => lastEvent[request.client] = "login_ok"
       /\ lastEvent[request.client] # "login_ok" => response = RedirectLogin

C1_Witness ==
  /\ request.route = "/day"
  /\ request.client = "c1"
  /\ response.kind = "day"
  /\ lastEvent["c1"] = "login_ok"
  /\ lastEvent["c2"] = "logout"
  /\ ~is_authenticated(session["c2"])

\* C9: a request for a day whose name is no date is answered NotFound, also
\* when a directory of that name exists.
C9_MalformedDayIsNotFound ==
  (/\ request.route \in {"/day", "/hour"}
   /\ is_authenticated(session[request.client])
   /\ ~StrptimeOk(request.day)) => response = NotFound

=============================================================================
